---- MODULE Spec2Model ----
(***************************************************************************)
(* The RCA query compiler of tesseract-core (sql/rca.rs, fn calculate).    *)
(*                                                                         *)
(* calculate is a pure function from (table, cuts, drills, meas, rca) to   *)
(* (sql text, grouping-column string).  SQL text is modelled as a sequence *)
(* of tokens; every format!, join and replace of the source is an operator *)
(* on token sequences.  A second specification executes the emitted text   *)
(* on a small fact table, with the groupArray / Array Join semantics the   *)
(* header comment of rca.rs describes.                                     *)
(***************************************************************************)
EXTENDS Integers, Sequences, FiniteSets, TLC

VARIABLES table, cuts, drills, meas, rca, fact, pc, calls, locals, ret, rows

vars == <<table, cuts, drills, meas, rca, fact, pc, calls, locals, ret, rows>>

inputs == <<table, cuts, drills, meas, rca>>

(***************************************************************************)
(* Bounds                                                                  *)
(***************************************************************************)
\* total number of descriptors (drilldowns, rca drilldowns, cuts, measures)
\* of one query under Spec
MaxInput == 3
\* the same total for the queries that are also executed (SpecExec)
MaxExecInput == 3
\* number of rows of the fact table under SpecExec
MaxRows == 2

(***************************************************************************)
(* Descriptors  (Option<String> is a sequence of length 0 or 1)            *)
(***************************************************************************)
None == <<>>

Some(x) == <<x>>

LevelColumn(k, n) == [key_column |-> k, name_column |-> n]

Date ==
  [foreign_key |-> "date_id", primary_key |-> "date_id", table |-> "sales",
   level_columns |-> <<LevelColumn("year", None), LevelColumn("month", None),
                       LevelColumn("day", None)>>]

Product ==
  [foreign_key |-> "product_id", primary_key |-> "product_id",
   table |-> "dim_products",
   level_columns |->
     <<LevelColumn("product_group_id", Some("product_group_label")),
       LevelColumn("product_id_raw", Some("product_label"))>>]

Geo ==
  [foreign_key |-> "geo_id", primary_key |-> "geo_id", table |-> "sales",
   level_columns |-> <<LevelColumn("geo", None)>>]

Drilldowns == {Date, Product, Geo}

CutSql(c, m) == [column |-> c, members |-> m]

Cuts ==
  {CutSql("year", <<"1">>), CutSql("year", <<"2">>),
   CutSql("product_group_id", <<"3">>), CutSql("geo", <<"1">>)}

MeasureSql(agg, c) == [aggregator |-> agg, column |-> c]

Measures == {MeasureSql("sum", "price"), MeasureSql("max", "quantity")}

RcaMeasures == {MeasureSql("sum", "quantity"), MeasureSql("max", "quantity")}

Tables == {[name |-> "sales", primary_key |-> Some("product_id")]}

\* the columns of the fact table, dimension tables joined in
FactCols ==
  {"year", "month", "day", "product_group_id", "product_group_label",
   "product_id_raw", "product_label", "geo", "quantity", "price"}

\* one fact row per year and product, every quantity different
FactRow(y, p) ==
  [year |-> y, month |-> "1", day |-> "1",
   product_group_id |-> "1", product_group_label |-> "1",
   product_id_raw |-> p, product_label |-> p, geo |-> "1", price |-> 1,
   quantity |-> IF y = "1" THEN (IF p = "1" THEN 1 ELSE 2)
                ELSE (IF p = "1" THEN 4 ELSE 8)]

FactRows ==
  <<FactRow("1", "1"), FactRow("1", "2"), FactRow("2", "1"), FactRow("2", "2")>>

\* the cuts and passthrough measures of the queries that are executed
ExecCuts == {CutSql("year", <<"1">>), CutSql("geo", <<"1">>)}

ExecMeasures == {MeasureSql("sum", "price")}

(***************************************************************************)
(* SQL text as tokens                                                      *)
(***************************************************************************)
\* a keyword or a punctuation mark of the format strings
KW(s) == [k |-> "kw", v |-> s, f |-> "", src |-> <<>>]

\* a bare column reference
Col(c) == [k |-> "col", v |-> c, f |-> "", src |-> <<c>>]

\* "f(src) as name"; with f = "" the alias "src as name"
As(fn, s, name) == [k |-> "as", v |-> name, f |-> fn, src |-> <<s>>]

\* "((a/b) / (c/d)) as rca"
RcaExpr == [k |-> "as", v |-> "rca", f |-> "rca", src |-> <<"a", "b", "c", "d">>]

\* the fact table of a from clause
Tbl(t) == [k |-> "table", v |-> t, f |-> "", src |-> <<>>]

\* "column in (members)" of a where clause
CutTok(c) == [k |-> "cut", v |-> c.column, f |-> "in", src |-> c.members]

Comma == KW(",")

RECURSIVE Join(_)
\* itertools::join(items, ", ") over items that are texts themselves
Join(items) ==
  IF Len(items) = 0 THEN <<>>
  ELSE IF Len(items) = 1 THEN items[1]
  ELSE items[1] \o <<Comma>> \o Join(Tail(items))

RECURSIVE FlatMap(_, _)
\* iter().flat_map(f).collect() for an f given as a function
FlatMap(f, s) ==
  IF Len(s) = 0 THEN <<>> ELSE f[s[1]] \o FlatMap(f, Tail(s))

\* DrilldownSql::col_string: the key and name column of every level
col_string(d) ==
  Join([i \in 1..Len(d.level_columns) |->
          LET l == d.level_columns[i] IN
            IF l.name_column # None
            THEN <<Col(l.key_column), Comma, Col(l.name_column[1])>>
            ELSE <<Col(l.key_column)>>])

\* the builder's grouping-column string: the col_string of every drilldown
final_drill_cols(ds) == Join([i \in 1..Len(ds) |-> col_string(ds[i])])

\* primary_agg: one aggregate statement over the fact table and its
\* grouping-column string; measure i comes out as column final_m<i>
primary_agg(t, cs, ds, ms) ==
  LET gcols == final_drill_cols(ds)
      mcols == Join([i \in 1..Len(ms) |->
                 <<As(ms[i].aggregator, ms[i].column,
                      "final_m" \o ToString(i - 1))>>])
      where == IF Len(cs) = 0 THEN <<>>
               ELSE <<KW("where")>> \o [i \in 1..Len(cs) |-> CutTok(cs[i])]
  IN  << <<KW("select")>> \o gcols \o <<Comma>> \o mcols
           \o <<KW("from"), Tbl(t.name)>> \o where
           \o <<KW("group by")>> \o gcols,
         gcols >>

(***************************************************************************)
(* calculate, section by section                                           *)
(***************************************************************************)
\* append the correct rca drill to drilldowns
a_drills(ds, r) == ds \o r.drill_1 \o r.drill_2

b_drills(ds, r) == ds \o r.drill_2

c_drills(ds, r) == ds \o r.drill_1

d_drills(ds, r) == ds

\* a plausible slip: the rca measure pushed after the caller's measures
all_meas_appended(ms, r) == ms \o <<r.mea>>

\* prepend the rca measure to meas
all_meas(ms, r) == <<r.mea>> \o ms

\* the key column of every level column of every drilldown, in order
key_columns(ds) ==
  FlatMap([d \in Drilldowns |->
             [i \in 1..Len(d.level_columns) |-> d.level_columns[i].key_column]],
          ds)

ac_drill_keys_blacklist(r) == key_columns(r.drill_2)

bd_drill_keys_blacklist(r) == key_columns(r.drill_1 \o r.drill_2)

\* blacklist.iter().find(|k| **k == cut.column).is_none()
not_found(blacklist, cut) ==
  ~ \E i \in 1..Len(blacklist) : blacklist[i] = cut.column

\* a plausible slip: the (a, c) path filtered with the (b, d) blacklist
ac_cuts_with_bd_blacklist(cs, r) ==
  SelectSeq(cs, LAMBDA cut : not_found(bd_drill_keys_blacklist(r), cut))

ac_cuts(cs, r) ==
  SelectSeq(cs, LAMBDA cut : not_found(ac_drill_keys_blacklist(r), cut))

bd_cuts(cs, r) ==
  SelectSeq(cs, LAMBDA cut : not_found(bd_drill_keys_blacklist(r), cut))

\* String::replace of one column name by another, in every token
replace_name(text, from, to) ==
  [i \in 1..Len(text) |->
     [text[i] EXCEPT !.v = IF @ = from THEN to ELSE @,
                     !.src = [j \in 1..Len(@) |->
                                IF @[j] = from THEN to ELSE @[j]]]]

\* "groupArray(key) as key_s[, groupArray(name) as name_s]" per level
group_array_rca_drill_2(r) ==
  Join(FlatMap([d \in Drilldowns |->
     [i \in 1..Len(d.level_columns) |->
        LET l == d.level_columns[i] IN
          IF l.name_column # None
          THEN <<As("groupArray", l.key_column, l.key_column \o "_s"), Comma,
                 As("groupArray", l.name_column[1], l.name_column[1] \o "_s")>>
          ELSE <<As("groupArray", l.key_column, l.key_column \o "_s")>>]],
     r.drill_2))

\* "key_s as key[, name_s as name]" per level
join_array_rca_drill_2(r) ==
  Join(FlatMap([d \in Drilldowns |->
     [i \in 1..Len(d.level_columns) |->
        LET l == d.level_columns[i] IN
          IF l.name_column # None
          THEN <<As("", l.key_column \o "_s", l.key_column), Comma,
                 As("", l.name_column[1] \o "_s", l.name_column[1])>>
          ELSE <<As("", l.key_column \o "_s", l.key_column)>>]],
     r.drill_2))

\* rca.drill_2.contains(&d)
contains(ds, d) == \E i \in 1..Len(ds) : ds[i] = d

\* the col_strings of the drilldowns that are not in rca.drill_2
minus_rca_drill_2(ds, r) ==
  LET kept == SelectSeq(ds, LAMBDA d : ~contains(r.drill_2, d))
  IN  Join([i \in 1..Len(kept) |-> col_string(kept[i])])

c_drills_minus_rca_drill_2(ds, r) == minus_rca_drill_2(c_drills(ds, r), r)

d_drills_minus_rca_drill_2(ds, r) == minus_rca_drill_2(d_drills(ds, r), r)

a_drills_str(ds, r) ==
  LET kept == a_drills(ds, r)
  IN  Join([i \in 1..Len(kept) |-> col_string(kept[i])])

b_drills_str(ds, r) ==
  LET kept == b_drills(ds, r)
  IN  Join([i \in 1..Len(kept) |-> col_string(kept[i])])

\* part c: roll a up to c and melt it back
ac_sql(ds, r, a) ==
  <<KW("select")>> \o a_drills_str(ds, r)
    \o <<Comma, Col("a"), Comma, Col("c"), KW("from"), KW("("), KW("select")>>
    \o c_drills_minus_rca_drill_2(ds, r) \o <<Comma>>
    \o group_array_rca_drill_2(r)
    \o <<Comma, As("groupArray", "a", "a_s"), Comma, As("sum", "a", "c"),
         KW("from"), KW("(")>>
    \o a \o <<KW(")"), KW("group by")>>
    \o c_drills_minus_rca_drill_2(ds, r)
    \o <<KW(")"), KW("Array Join")>> \o join_array_rca_drill_2(r)
    \o <<Comma, As("", "a_s", "a")>>

\* part d: roll b up to d and melt it back
bd_sql(ds, r, b) ==
  IF Len(d_drills(ds, r)) = 0
  THEN <<KW("select")>> \o b_drills_str(ds, r)
         \o <<Comma, Col("b"), Comma, Col("d"), KW("from"), KW("("),
              KW("select"), As("groupArray", "b", "b_s"), Comma,
              As("sum", "b", "d"), KW("from"), KW("(")>>
         \o b \o <<KW(")"), KW(")"), KW("Array Join")>>
         \o join_array_rca_drill_2(r) \o <<Comma, As("", "b_s", "b")>>
  ELSE <<KW("select")>> \o b_drills_str(ds, r)
         \o <<Comma, Col("b"), Comma, Col("d"), KW("from"), KW("("),
              KW("select")>>
         \o d_drills_minus_rca_drill_2(ds, r) \o <<Comma>>
         \o group_array_rca_drill_2(r)
         \o <<Comma, As("groupArray", "b", "b_s"), Comma, As("sum", "b", "d"),
              KW("from"), KW("(")>>
         \o b \o <<KW(")"), KW("group by")>>
         \o d_drills_minus_rca_drill_2(ds, r)
         \o <<KW(")"), KW("Array Join")>> \o join_array_rca_drill_2(r)
         \o <<Comma, As("", "b_s", "b")>>

\* the final join of (a, c) with (b, d)
join_sql(ac, bd, b_final_drills) ==
  <<KW("select"), KW("*"), KW("from"), KW("(")>> \o ac
    \o <<KW(")"), KW("all inner join"), KW("(")>> \o bd
    \o <<KW(")"), KW("using")>> \o b_final_drills

\* ", m1, ..., mn", or nothing without caller-supplied measures
final_ext_meas(ms) ==
  IF Len(ms) # 0
  THEN <<Comma>> \o Join([i \in 1..Len(ms) |-> <<Col("m" \o ToString(i))>>])
  ELSE <<>>

\* a plausible slip: the passthrough measures projected ahead of rca
project_sql_meas_first(a_final_drills, ms, joined) ==
  <<KW("select")>> \o a_final_drills \o final_ext_meas(ms)
    \o <<Comma, RcaExpr, KW("from"), KW("(")>> \o joined \o <<KW(")")>>

\* the outer projection
project_sql(a_final_drills, ms, joined) ==
  <<KW("select")>> \o a_final_drills \o <<Comma, RcaExpr>>
    \o final_ext_meas(ms) \o <<KW("from"), KW("(")>> \o joined \o <<KW(")")>>

RECURSIVE without(_, _, _, _)
\* the tokens lo..hi of text that a replace does not delete
without(text, deleted, lo, hi) ==
  IF lo > hi THEN <<>>
  ELSE IF lo = hi
       THEN (IF lo \in deleted THEN <<>> ELSE <<text[lo]>>)
       ELSE LET mid == (lo + hi) \div 2
            IN  without(text, deleted, lo, mid)
                  \o without(text, deleted, mid + 1, hi)

\* final_sql.replace("select , ", "select ")
replace_select_comma(text) ==
  without(text,
          {i \in 2..Len(text) : text[i] = Comma /\ text[i - 1] = KW("select")},
          1, Len(text))

\* final_sql.replace("group by )", ")")
replace_group_by_paren(text) ==
  without(text,
          {i \in 1..(Len(text) - 1) :
             text[i] = KW("group by") /\ text[i + 1] = KW(")")},
          1, Len(text))

\* every local of calculate, as the function computes them
calculate(t, cs, ds, ms, r) ==
  LET pa == primary_agg(t, ac_cuts(cs, r), a_drills(ds, r), all_meas(ms, r))
      pb == primary_agg(t, bd_cuts(cs, r), b_drills(ds, r), all_meas(ms, r))
      sql_a == replace_name(pa[1], "final_m0", "a")
      sql_b == replace_name(pb[1], "final_m0", "b")
      sql_ac == ac_sql(ds, r, sql_a)
      sql_bd == bd_sql(ds, r, sql_b)
      generated == project_sql(pa[2], ms, join_sql(sql_ac, sql_bd, pb[2]))
  IN  [calls |-> << [table |-> t, cuts |-> ac_cuts(cs, r),
                     drills |-> a_drills(ds, r), meas |-> all_meas(ms, r)],
                    [table |-> t, cuts |-> bd_cuts(cs, r),
                     drills |-> b_drills(ds, r), meas |-> all_meas(ms, r)] >>,
       a_final_drills |-> pa[2],
       b_final_drills |-> pb[2],
       a |-> sql_a, b |-> sql_b, ac |-> sql_ac, bd |-> sql_bd,
       generated |-> generated,
       final_sql |-> replace_group_by_paren(replace_select_comma(generated))]

(***************************************************************************)
(* Reading emitted text back: clause boundaries and select items           *)
(***************************************************************************)
Positions(text, tok) == {i \in 1..Len(text) : text[i] = tok}

First(text, tok) ==
  LET S == Positions(text, tok)
  IN  IF S = {} THEN 0 ELSE CHOOSE i \in S : \A j \in S : i <= j

Last(text, tok) ==
  LET S == Positions(text, tok)
  IN  IF S = {} THEN 0 ELSE CHOOSE i \in S : \A j \in S : j <= i

Sub(text, lo, hi) == IF lo > hi THEN <<>> ELSE SubSeq(text, lo, hi)

\* the items of a comma separated list
Items(list) == SelectSeq(list, LAMBDA tok : tok # Comma)

\* the names a list of items puts in scope
Names(list) == {Items(list)[i].v : i \in 1..Len(Items(list))}

\* "select <sel> from (<inner>) Array Join <arr>"
parse_melt(text) ==
  LET pf == First(text, KW("from"))
      pj == Last(text, KW("Array Join"))
  IN  [sel |-> Sub(text, 2, pf - 1),
       inner |-> Sub(text, pf + 2, pj - 2),
       arr |-> Sub(text, pj + 1, Len(text))]

\* "select <sel> from (<src>)<tail>", the tail being a group by clause or nothing
parse_rollup(text) ==
  LET pf == First(text, KW("from"))
      pl == Last(text, KW(")"))
  IN  [sel |-> Sub(text, 2, pf - 1),
       src |-> Sub(text, pf + 2, pl - 1),
       tail |-> Sub(text, pl + 1, Len(text))]

\* the select list of the outermost select
outer_select(text) == Sub(text, 2, First(text, KW("from")) - 1)

(***************************************************************************)
(* Executing emitted text on a fact table.  groupArray collects the values *)
(* of a group into an array in row order; Array Join melts the arrays back *)
(* into one row per element, in lock step.  A relation is [ok, cols, arrs, *)
(* rows]: ok is FALSE when the statement is malformed or names a column    *)
(* that is not in scope.                                                   *)
(***************************************************************************)
Failed == [ok |-> FALSE, cols |-> {}, arrs |-> {}, rows |-> <<>>]

\* a comma separated list with no empty item
WellFormed(list) ==
  /\ Len(list) % 2 = 1
  /\ \A i \in 1..Len(list) : (list[i] = Comma) <=> (i % 2 = 0)

\* the elements of xs at the positions in keep, in order
Pick(xs, keep) == without(xs, (1..Len(xs)) \ keep, 1, Len(xs))

RECURSIVE Concat(_)
Concat(seqs) == IF Len(seqs) = 0 THEN <<>> ELSE seqs[1] \o Concat(Tail(seqs))

RECURSIVE Sum(_)
Sum(vals) == IF Len(vals) = 0 THEN 0 ELSE vals[1] + Sum(Tail(vals))

Max(vals) ==
  IF Len(vals) = 0 THEN 0
  ELSE CHOOSE x \in {vals[i] : i \in 1..Len(vals)} :
         \A i \in 1..Len(vals) : vals[i] <= x

\* the aggregate functions a statement may apply to the values of a group
AggFns == {"sum", "max", "groupArray"}

Agg(fn, vals) ==
  IF fn = "sum" THEN Sum(vals)
  ELSE IF fn = "max" THEN Max(vals)
  ELSE vals

\* "select <sel> from <rel> [group by <grp>]"
Aggregate(sel, grp, rel) ==
  LET items == Items(sel)
      gcols == Names(grp)
      valid ==
        /\ rel.ok
        /\ WellFormed(sel)
        /\ grp = <<>> \/ WellFormed(grp)
        /\ gcols \subseteq rel.cols
        /\ \A i \in 1..Len(items) :
             \/ items[i].k = "col" /\ items[i].v \in gcols
             \/ /\ items[i].k = "as" /\ items[i].f \in AggFns
                /\ items[i].src[1] \in rel.cols
      key(row) == [c \in gcols |-> row[c]]
      firsts == {i \in 1..Len(rel.rows) :
                   \A j \in 1..(i - 1) : key(rel.rows[j]) # key(rel.rows[i])}
      heads == IF grp = <<>> THEN <<[c \in {} |-> 0]>>
               ELSE [n \in 1..Cardinality(firsts) |->
                       key(Pick(rel.rows, firsts)[n])]
      members(h) == SelectSeq(rel.rows, LAMBDA row : key(row) = h)
      out(h) ==
        [c \in Names(sel) |->
           LET it == CHOOSE t \in {items[i] : i \in 1..Len(items)} : t.v = c
               ms == members(h)
           IN  IF it.k = "col" THEN h[c]
               ELSE Agg(it.f, [n \in 1..Len(ms) |-> ms[n][it.src[1]]])]
  IN  IF ~valid THEN Failed
      ELSE [ok |-> TRUE,
            cols |-> Names(sel),
            arrs |-> {items[i].v : i \in {n \in 1..Len(items) :
                                           items[n].f = "groupArray"}},
            rows |-> [n \in 1..Len(heads) |-> out(heads[n])]]

\* "select <sel>, <meas> from <table> [where <cuts>] [group by <grp>]"
EvalTable(text, rws) ==
  LET pf == First(text, KW("from"))
      pg == Last(text, KW("group by"))
      pe == IF pg = 0 THEN Len(text) ELSE pg - 1
      where == Sub(text, pf + 2, pe)
      grp == IF pg = 0 THEN <<>> ELSE Sub(text, pg + 1, Len(text))
      kept == SelectSeq(rws, LAMBDA row :
                \A i \in 2..Len(where) :
                   \E m \in 1..Len(where[i].src) :
                      row[where[i].v] = where[i].src[m])
      scanned == [ok |-> pf > 0 /\ (pg = 0 \/ grp # <<>>),
                  cols |-> FactCols,
                  arrs |-> {}, rows |-> kept]
  IN  Aggregate(outer_select(text), grp, scanned)

\* "select <sel> from (<rel>) Array Join <arr>"
Melt(sel, arr, rel) ==
  LET items == Items(sel)
      joins == Items(arr)
      alias == {joins[i].v : i \in 1..Len(joins)}
      valid ==
        /\ rel.ok
        /\ WellFormed(sel) /\ WellFormed(arr)
        /\ \A i \in 1..Len(joins) : joins[i].src[1] \in rel.arrs
        /\ \A i \in 1..Len(items) :
             items[i].k = "col" /\ items[i].v \in rel.cols \cup alias
      source(c) == (CHOOSE t \in {joins[i] : i \in 1..Len(joins)} : t.v = c).src[1]
      melted(row) ==
        [n \in 1..Len(row[joins[1].src[1]]) |->
           [c \in Names(sel) |->
              IF c \in alias THEN row[source(c)][n] ELSE row[c]]]
  IN  IF ~valid THEN Failed
      ELSE [ok |-> TRUE, cols |-> Names(sel), arrs |-> {},
            rows |-> Concat([i \in 1..Len(rel.rows) |-> melted(rel.rows[i])])]

\* one derivation: the base aggregate, rolled up, melted
Derive(text, rws) ==
  LET melt == parse_melt(text)
      rollup == parse_rollup(melt.inner)
      base == EvalTable(rollup.src, rws)
      grouped == rollup.tail # <<>>
      rolled == IF grouped /\ rollup.tail[1] # KW("group by") THEN Failed
                ELSE IF grouped /\ Len(rollup.tail) = 1 THEN Failed
                ELSE Aggregate(rollup.sel,
                               IF grouped THEN Tail(rollup.tail) ELSE <<>>,
                               base)
  IN  [base |-> base, rolled |-> rolled,
       melted |-> Melt(melt.sel, melt.arr, rolled)]

\* "select * from (<left>) all inner join (<right>) using <key>"
InnerJoin(left, right, key) ==
  LET kcols == Names(key)
      valid == /\ left.ok /\ right.ok
               /\ WellFormed(key)
               /\ kcols \subseteq left.cols \cap right.cols
      match(x) ==
        LET ys == SelectSeq(right.rows,
                            LAMBDA y : \A c \in kcols : y[c] = x[c])
        IN  [n \in 1..Len(ys) |->
               [c \in left.cols \cup right.cols |->
                  IF c \in left.cols THEN x[c] ELSE ys[n][c]]]
  IN  IF ~valid THEN Failed
      ELSE [ok |-> TRUE, cols |-> left.cols \cup right.cols, arrs |-> {},
            rows |-> Concat([i \in 1..Len(left.rows) |-> match(left.rows[i])])]

\* "select <sel> from (<rel>)"; rca is kept as the tuple <<a, b, c, d>>
Project(sel, rel) ==
  LET items == Items(sel)
      valid == /\ rel.ok
               /\ WellFormed(sel)
               /\ \A i \in 1..Len(items) :
                    \A n \in 1..Len(items[i].src) :
                       items[i].src[n] \in rel.cols
      out(row) ==
        [c \in Names(sel) |->
           IF c = "rca" THEN <<row["a"], row["b"], row["c"], row["d"]>>
           ELSE row[c]]
  IN  IF ~valid THEN Failed
      ELSE [ok |-> TRUE, cols |-> Names(sel), arrs |-> {},
            rows |-> [i \in 1..Len(rel.rows) |-> out(rel.rows[i])]]

\* the statement calculate returns, run on the fact table
Exec(text, rws) ==
  LET pf == First(text, KW("from"))
      body == Sub(text, pf + 2, Len(text) - 1)
      pj == First(body, KW("all inner join"))
      pu == Last(body, KW("using"))
      lhs == Derive(Sub(body, 5, pj - 2), rws)
      rhs == Derive(Sub(body, pj + 2, pu - 2), rws)
      both == InnerJoin(lhs.melted, rhs.melted, Sub(body, pu + 1, Len(body)))
  IN  [ac |-> lhs, bd |-> rhs, joined |-> both,
       final |-> Project(outer_select(text), both)]

(***************************************************************************)
(* The state machine: a query is given, calculate compiles it              *)
(***************************************************************************)
NoLocals == [calls |-> <<>>, a_final_drills |-> <<>>, b_final_drills |-> <<>>,
             a |-> <<>>, b |-> <<>>, ac |-> <<>>, bd |-> <<>>,
             generated |-> <<>>, final_sql |-> <<>>]

\* the queries of at most n descriptors in all
Queries(n, CutSet, MeasureSet) ==
  \E n1 \in 0..n : \E n2 \in 0..(n - n1) : \E n3 \in 0..(n - n1 - n2) :
  \E n4 \in 0..(n - n1 - n2 - n3) : \E n5 \in 0..(n - n1 - n2 - n3 - n4) :
    /\ table \in Tables
    /\ drills \in [1..n1 -> Drilldowns]
    /\ \E d1 \in [1..n2 -> Drilldowns], d2 \in [1..n3 -> Drilldowns],
          m \in RcaMeasures :
         rca = [drill_1 |-> d1, drill_2 |-> d2, mea |-> m]
    /\ cuts \in [1..n4 -> CutSet]
    /\ meas \in [1..n5 -> MeasureSet]

Fresh ==
  /\ pc = "start"
  /\ calls = <<>>
  /\ locals = NoLocals
  /\ ret = <<>>
  /\ rows = <<>>

\* the fact tables of at most MaxRows rows
FactTables ==
  {without(FactRows, drop, 1, Len(FactRows)) :
     drop \in {d \in SUBSET (1..Len(FactRows)) :
                Len(FactRows) - Cardinality(d) <= MaxRows}}

Init ==
  /\ Queries(MaxInput, Cuts, Measures)
  /\ fact = <<>>
  /\ Fresh

\* calculate(table, cuts, drills, meas, rca) -> (final_sql, a_final_drills)
Calculate ==
  /\ pc = "start"
  /\ locals' = calculate(table, cuts, drills, meas, rca)
  /\ calls' = locals'.calls
  /\ ret' = <<locals'.final_sql, locals'.a_final_drills>>
  /\ pc' = "done"
  /\ UNCHANGED <<table, cuts, drills, meas, rca, fact, rows>>

Next == Calculate

Spec == Init /\ [][Next]_vars

\* the caller runs the returned statement on the backend
Execute ==
  /\ pc = "done"
  /\ rows' = Exec(ret[1], fact)
  /\ pc' = "executed"
  /\ UNCHANGED <<table, cuts, drills, meas, rca, fact, calls, locals, ret>>

InitExec ==
  /\ Queries(MaxExecInput, ExecCuts, ExecMeasures)
  /\ fact \in FactTables
  /\ Fresh

NextExec == Calculate \/ Execute

SpecExec == InitExec /\ [][NextExec]_vars

(***************************************************************************)
(* Claims                                                                  *)
(***************************************************************************)
\* the key columns of the levels of a list of drilldowns, as a set
KeySet(ds) ==
  UNION {{ds[i].level_columns[j].key_column :
            j \in 1..Len(ds[i].level_columns)} : i \in 1..Len(ds)}

\* out is xs restricted to the positions whose cut column is not in keyset,
\* in input order and with duplicates
IsCutsNotOn(out, xs, keyset) ==
  LET K == {i \in 1..Len(xs) : xs[i].column \notin keyset}
      nth(j) == CHOOSE i \in K : Cardinality({x \in K : x <= i}) = j
  IN  /\ Len(out) = Cardinality(K)
      /\ \A j \in 1..Len(out) : out[j] = xs[nth(j)]

\* C2: the cut list passed to the (a, c) sub-aggregate is exactly the input
\* cuts whose column is no key column of drill_2, the one passed to the (b, d)
\* sub-aggregate exactly those whose column is no key column of drill_1 or
\* drill_2; both in input order, duplicates kept
C2_CutPartition ==
  pc = "done" =>
    /\ IsCutsNotOn(calls[1].cuts, cuts, KeySet(rca.drill_2))
    /\ IsCutsNotOn(calls[2].cuts, cuts,
                   KeySet(rca.drill_1) \cup KeySet(rca.drill_2))

\* a cut on year given twice, with the date dimension as drill_1: both
\* copies reach the (a, c) path and none the (b, d) path
C2_Witness ==
  /\ pc = "done"
  /\ rca.drill_1 = <<Date>>
  /\ Len(cuts) = 2 /\ cuts[1] = cuts[2] /\ cuts[1].column = "year"
  /\ calls[1].cuts = cuts
  /\ calls[2].cuts = <<>>

C7_GroupingColumns ==
  pc = "done" =>
    /\ calls[1].drills = drills \o rca.drill_1 \o rca.drill_2
    /\ ret[2] = primary_agg(calls[1].table, calls[1].cuts,
                            calls[1].drills, calls[1].meas)[2]
    /\ Items(outer_select(ret[1]))
         = Items(ret[2]) \o <<RcaExpr>>
             \o [i \in 1..Len(meas) |-> Col("m" \o ToString(i))]

\* both rca drilldowns given and one passthrough measure
C7_Witness ==
  /\ pc = "done"
  /\ rca.drill_1 = <<Date>> /\ rca.drill_2 = <<Product>>
  /\ Len(meas) = 1
  /\ Len(Items(ret[2])) = 7

\* an rca configuration the design accepts: drill_1 and drill_2 are not
\* empty and share no drilldown and no level key column
ValidRca ==
  /\ rca.drill_1 # <<>>
  /\ rca.drill_2 # <<>>
  /\ KeySet(rca.drill_1) \cap KeySet(rca.drill_2) = {}
  /\ \A i \in 1..Len(rca.drill_1) : ~contains(rca.drill_2, rca.drill_1[i])

\* what calculate returned is a SQL statement
ReturnsSql == Len(ret) = 2 /\ Len(ret[1]) > 0

\* C3: with drill_1 or drill_2 empty, or the two sharing a drilldown or a
\* level key column, calculate returns no SQL
C3_InvalidRejected ==
  (pc = "done" /\ ~ValidRca) => ~ReturnsSql

\* the d grouping set is empty: every base drilldown is a drill_2 drilldown
EmptyDGrouping ==
  \A i \in 1..Len(drills) : \E j \in 1..Len(rca.drill_2) :
     drills[i] = rca.drill_2[j]

\* C5: with an empty d grouping set the (b, d) derivation, as generated,
\* holds no group by clause and no empty leading select item
C5_NoEmptyClause ==
  (pc = "done" /\ ValidRca /\ EmptyDGrouping) =>
    LET rollup == parse_rollup(parse_melt(locals.bd).inner)
    IN  /\ KW("group by") \notin {rollup.tail[i] : i \in 1..Len(rollup.tail)}
        /\ rollup.sel # <<>> /\ rollup.sel[1] # Comma

\* the columns the final join carries: those of both derivations' selects
JoinedCols ==
  Names(parse_melt(locals.ac).sel) \cup Names(parse_melt(locals.bd).sel)

\* C4: the final projection lists rca and then m1..mn, and every mi is a
\* column the joined (a, c) / (b, d) sub-results carry
C4_PassthroughMeasures ==
  (pc = "done" /\ ValidRca) =>
    LET sel == Items(outer_select(ret[1]))
        at == First(sel, RcaExpr)
    IN  /\ at > 0
        /\ Sub(sel, at + 1, Len(sel))
             = [i \in 1..Len(meas) |-> Col("m" \o ToString(i))]
        /\ \A i \in 1..Len(meas) : ("m" \o ToString(i)) \in JoinedCols

\* every array the Array Join of a derivation expands is a groupArray of
\* the roll-up's select list, and every column of its outer select comes
\* from that select list or from the Array Join
InScope(text) ==
  LET melt == parse_melt(text)
      rollup == parse_rollup(melt.inner)
      defs == Items(rollup.sel)
      arrays == {defs[i].v : i \in {n \in 1..Len(defs) :
                                      defs[n].f = "groupArray"}}
      joins == Items(melt.arr)
  IN  /\ \A i \in 1..Len(joins) : joins[i].src[1] \in arrays
      /\ Names(melt.sel) \subseteq Names(rollup.sel) \cup Names(melt.arr)

\* C8: in both derivations, and in both variants of the d derivation, no
\* column or array is referenced that is not in scope
C8_ColumnsInScope ==
  (pc = "done" /\ ValidRca) => InScope(locals.ac) /\ InScope(locals.bd)

\* the key and name columns of the levels of a list of drilldowns
LevelCols(ds) ==
  UNION {UNION {{ds[i].level_columns[j].key_column}
                  \cup {ds[i].level_columns[j].name_column[n] :
                          n \in 1..Len(ds[i].level_columns[j].name_column)} :
                j \in 1..Len(ds[i].level_columns)} : i \in 1..Len(ds)}

\* the rca measure aggregated, in one scan of its own, over the fact rows
\* that pass the cuts and agree with row on the columns of ds
Scan(row, ds) ==
  LET hit == SelectSeq(fact, LAMBDA f :
               /\ \A i \in 1..Len(cuts) :
                    \E m \in 1..Len(cuts[i].members) :
                       f[cuts[i].column] = cuts[i].members[m]
               /\ \A c \in LevelCols(ds) : f[c] = row[c])
  IN  Agg(rca.mea.aggregator,
          [n \in 1..Len(hit) |-> hit[n][rca.mea.column]])

NoInternalCut ==
  \A i \in 1..Len(cuts) :
     cuts[i].column \notin KeySet(rca.drill_1) \cup KeySet(rca.drill_2)

\* no base drilldown is one of the rca's own drilldowns
BaseOutsideRca ==
  \A i \in 1..Len(drills) :
     ~contains(rca.drill_1, drills[i]) /\ ~contains(rca.drill_2, drills[i])

\* C1: without a cut on a drill_1 or drill_2 key, the a, b, c, d of every
\* result row are the four independent aggregations grouped by
\* D ++ drill_1 ++ drill_2, D ++ drill_2, D ++ drill_1 and D, whatever the
\* aggregator of the rca measure (stated for the base lists that share no
\* drilldown with the rca)
C1_FourScans ==
  (pc = "executed" /\ ValidRca /\ BaseOutsideRca /\ NoInternalCut) =>
    \A i \in 1..Len(rows.final.rows) :
       LET row == rows.final.rows[i] IN
         row["rca"] = <<Scan(row, drills \o rca.drill_1 \o rca.drill_2),
                        Scan(row, drills \o rca.drill_2),
                        Scan(row, drills \o rca.drill_1),
                        Scan(row, drills)>>

\* roll-up then melt of one base aggregate: fine is its measure column,
\* coarse the derived one
RoundTrip(side, fine, coarse) ==
  LET base == side.base.rows
      out == side.melted.rows
      group == (side.base.cols \ {fine}) \ LevelCols(rca.drill_2)
      total(row) ==
        LET same == SelectSeq(base, LAMBDA x :
                      \A c \in group : x[c] = row[c])
        IN  Sum([n \in 1..Len(same) |-> same[n][fine]])
  IN  /\ side.melted.ok
      /\ Len(out) = Len(base)
      /\ \A i \in 1..Len(base) : \E j \in 1..Len(out) :
            [c \in side.base.cols |-> out[j][c]] = base[i]
      /\ \A j \in 1..Len(out) : out[j][coarse] = total(out[j])

\* C6: for every result of the a (resp. b) base aggregate, roll-up then
\* melt returns exactly its rows, each with the sum of a (resp. b) over its
\* coarse group as c (resp. d)
C6_RoundTrip ==
  (pc = "executed" /\ ValidRca) =>
    /\ rows.ac.base.ok => RoundTrip(rows.ac, "a", "c")
    /\ rows.bd.base.ok => RoundTrip(rows.bd, "b", "d")

\* C9: the join key is the grouping columns of the b sub-aggregate, each
\* an output column of both sides, and every (a, c) row meets exactly one
\* (b, d) row
C9_JoinKey ==
  (pc = "executed" /\ ValidRca) =>
    LET key == LevelCols(drills \o rca.drill_2) IN
      /\ Names(Sub(ret[1], Last(ret[1], KW("using")) + 1, Len(ret[1]) - 1))
           = key
      /\ key \subseteq Names(parse_melt(locals.ac).sel)
      /\ key \subseteq Names(parse_melt(locals.bd).sel)
      /\ rows.ac.melted.ok =>
           /\ rows.bd.melted.ok
           /\ \A i \in 1..Len(rows.ac.melted.rows) :
                Cardinality({j \in 1..Len(rows.bd.melted.rows) :
                   \A c \in key : rows.bd.melted.rows[j][c]
                                    = rows.ac.melted.rows[i][c]}) = 1

====
